---------------------------- MODULE Spec2Model ----------------------------
(***************************************************************************)
(* Graph builders of mlreco/utils/gnn/network.py: loop_graph,              *)
(* complete_graph, delaunay_graph, mst_graph, knn_graph, bipartite_graph.  *)
(*                                                                         *)
(* Cluster ids are 0-based as in the source.  An array of length n is a    *)
(* function over 0..n-1.  An (E,2) edge array is a sequence of rows        *)
(* <<source, target>>; the returned ret.T, of shape (2,E), has these rows  *)
(* as its columns.  Distances and thresholds are integers.                 *)
(***************************************************************************)
EXTENDS Integers, Sequences, FiniteSets

\* Largest number of clusters C of a call.
MaxClusters == 3
\* Batch ids are drawn from 0..MaxBatch.
MaxBatch == 1
\* Entries of the distance matrix are drawn from 0..MaxDist.
MaxDist == 1
\* Largest number of neighbours k asked of knn_graph.
MaxK == 2

\* Largest number of voxels N of a call.
MaxVoxels == 2
\* Voxel coordinates are drawn from 0..MaxCoord.
MaxCoord == 1
\* Largest number of edges E of an edge list handed to a call.
MaxEdges == 2

\* Largest number of fragments of a call; cluster ids are drawn from
\* 0..MaxFrags.
MaxFrags == 2

\* Default of max_dist: no pruning.
NoMaxDist == -1
\* Content of a row of np.empty that was never written.
Unwritten == -1

Orientations == {"primary", "secondary", "other"}

VARIABLES
    batch_ids,  \* (C) batch id of each cluster
    dist_mat,   \* (C,C) pair-wise cluster distances
    pc,         \* "ready" before the call, "done" after it
    call,       \* the function called and its scalar arguments
    result      \* outcome of the call

vars == <<batch_ids, dist_mat, pc, call, result>>

-----------------------------------------------------------------------------
(* numpy helpers *)

Len0(a) == Cardinality(DOMAIN a)

Min(S) == CHOOSE x \in S : \A y \in S : x <= y

RECURSIVE SortedSeq(_)
\* np.sort / np.unique / np.where(...)[0]: the elements of S in ascending order.
SortedSeq(S) == IF S = {} THEN <<>> ELSE <<Min(S)>> \o SortedSeq(S \ {Min(S)})

Range(s) == {s[x] : x \in DOMAIN s}

PairLess(e, f) == e[1] < f[1] \/ (e[1] = f[1] /\ e[2] < f[2])

RECURSIVE SortedPairs(_)
\* np.where(mat): the index pairs of S in row-major order.
SortedPairs(S) ==
    IF S = {} THEN <<>>
    ELSE LET m == CHOOSE e \in S : \A f \in S : f = e \/ PairLess(e, f)
         IN <<m>> \o SortedPairs(S \ {m})

\* np.unique(batch_ids)
unique(b_ids) == SortedSeq(Range(b_ids))

\* np.where(batch_ids == b)[0]
where(b_ids, b) == SortedSeq({i \in DOMAIN b_ids : b_ids[i] = b})

\* ret[:,::-1]: every row with its two columns swapped.
Reversed(ret) == [x \in DOMAIN ret |-> <<ret[x][2], ret[x][1]>>]

\* np.vstack((ret, ret[:,::-1])) without the reciprocal rows.
ReciprocalDropped(ret) == ret

\* np.vstack((ret, ret[:,::-1])): add the reciprocal edges.
Reciprocal(ret) == ret \o Reversed(ret)

RECURSIVE Flatten(_)
Flatten(ss) == IF ss = <<>> THEN <<>> ELSE Head(ss) \o Flatten(Tail(ss))

Ok(ret, cand, kept) ==
    [status |-> "ok", error |-> "", ret |-> ret, cand |-> cand, kept |-> kept]

Error(name) ==
    [status |-> "error", error |-> name, ret |-> <<>>, cand |-> <<>>, kept |-> <<>>]

-----------------------------------------------------------------------------
(* loop_graph *)

\* ret[k] = [k,k] on ret of shape (2,n): a row of length n takes a list of
\* length 2 only when n = 2 (ValueError otherwise, raised before any write).
RowAssignFits(n) == n = 2

\* mat.T of a matrix of nrows rows given as the sequence of its rows.
Transpose(mat, ncols) ==
    [c \in 1..ncols |-> [r \in 1..Len(mat) |-> mat[r][c]]]

\* The edges of an incidence matrix of shape (2,E): its columns.
Columns(inc) ==
    IF Len(inc) = 0 THEN <<>>
    ELSE [c \in 1..Len(inc[1]) |-> <<inc[1][c], inc[2][c]>>]

loop_graph(n) ==
    IF n = 0 THEN Ok(<<>>, <<>>, <<>>)           \* no iteration; ret.T is (0,2)
    ELSE IF ~RowAssignFits(n) THEN Error("ValueError")
    ELSE \* ret of shape (2,n), n = 2: the rows ret[0] = [0,0], ret[1] = [1,1]
         LET ret == [k \in 1..n |-> <<k - 1, k - 1>>]
             edges == Columns(Transpose(ret, n))
         IN Ok(edges, edges, edges)

-----------------------------------------------------------------------------
(* Distance pruning, shared by complete, delaunay, mst and bipartite *)

\* dists < max_dist without the strictness.
KeepsMut(d, max_dist) == d <= max_dist

\* The mask dists < max_dist.
Keeps(d, max_dist) == d < max_dist

\* ret = ret[dists < max_dist], dists[k] = dist_mat[e[0],e[1]]
Prune(ret, dm, max_dist) ==
    SelectSeq(ret, LAMBDA e : Keeps(dm.mat[e[1], e[2]], max_dist))

-----------------------------------------------------------------------------
(* complete_graph *)

\* edge_count without the removal of the diagonal.
EdgeCountMut(b_ids) ==
    LET u == unique(b_ids)
        sq(b) == Cardinality({i \in DOMAIN b_ids : b_ids[i] = b})
                 * Cardinality({i \in DOMAIN b_ids : b_ids[i] = b})
        Sum[x \in 0..Len(u)] == IF x = 0 THEN 0 ELSE Sum[x - 1] + sq(u[x])
    IN Sum[Len(u)] \div 2

\* edge_count = int((sum_b np.sum(batch_ids == b)**2 - len(batch_ids))/2)
EdgeCount(b_ids) ==
    LET u == unique(b_ids)
        sq(b) == Cardinality({i \in DOMAIN b_ids : b_ids[i] = b})
                 * Cardinality({i \in DOMAIN b_ids : b_ids[i] = b})
        Sum[x \in 0..Len(u)] == IF x = 0 THEN 0 ELSE Sum[x - 1] + sq(u[x])
    IN (Sum[Len(u)] - Len0(b_ids)) \div 2

\* The pairs written by the double loop, in the order they are written.
CompletePairs(b_ids) ==
    SortedPairs({e \in (DOMAIN b_ids) \X (DOMAIN b_ids) :
                    e[1] < e[2] /\ b_ids[e[1]] = b_ids[e[2]]})

\* ret = np.empty((edge_count,2)) after the double loop wrote ret[k].
CompleteBuffer(b_ids) ==
    LET pairs == CompletePairs(b_ids)
    IN [x \in 1..EdgeCount(b_ids) |->
            IF x <= Len(pairs) THEN pairs[x] ELSE <<Unwritten, Unwritten>>]

complete_graph(b_ids, dm, max_dist) ==
    IF EdgeCount(b_ids) = 0 THEN Ok(<<>>, <<>>, <<>>)
    ELSE IF Len(CompletePairs(b_ids)) > EdgeCount(b_ids) THEN Error("IndexError")
    ELSE LET cand == CompleteBuffer(b_ids)
         IN IF max_dist > -1
            THEN IF ~dm.given THEN Error("AssertionError")
                 ELSE LET kept == Prune(cand, dm, max_dist)
                      IN Ok(Reciprocal(kept), cand, kept)
            ELSE Ok(Reciprocal(cand), cand, cand)

-----------------------------------------------------------------------------
(* delaunay_graph *)

\* scipy's Delaunay(data[mask,:3], qhull_options='QJ').simplices is not
\* computed here.  Its outcome for a call is either a Qhull error or, for
\* every batch, the simplices of that batch's voxels; of the simplices only
\* the pairs of clusters (i,j), i < j, of one batch with voxels in a common
\* simplex are read (tri.adj).
DelaunayOutcomes(b_ids) ==
    {[error |-> TRUE, adj |-> {}]}
    \cup {[error |-> FALSE, adj |-> A] :
            A \in SUBSET {e \in (DOMAIN b_ids) \X (DOMAIN b_ids) :
                            e[1] < e[2] /\ b_ids[e[1]] = b_ids[e[2]]}}

\* Per batch, in the order of np.unique: np.where(adj_mat) mapped to clust_ids.
DelaunayEdges(b_ids, adj) ==
    LET u == unique(b_ids)
    IN Flatten([x \in 1..Len(u) |->
                  SortedPairs({e \in adj : b_ids[e[1]] = u[x] /\ b_ids[e[2]] = u[x]})])

delaunay_graph(b_ids, tri, dm, max_dist) ==
    IF Len0(b_ids) > 0 /\ tri.error THEN Error("QhullError")
    ELSE LET cand == DelaunayEdges(b_ids, tri.adj)
         IN IF max_dist > -1
            THEN IF ~dm.given THEN Error("AssertionError")
                 ELSE LET kept == Prune(cand, dm, max_dist)
                      IN Ok(Reciprocal(kept), cand, kept)
            ELSE Ok(Reciprocal(cand), cand, cand)

-----------------------------------------------------------------------------
(* mst_graph *)

\* submatrix_nb(mat, rows, cols): the block of mat at the given rows and
\* columns.  Local indices are the positions 1..m in clust_ids.
submatrix_nb(mat, rows, cols) ==
    [e \in (1..Len(rows)) \X (1..Len(cols)) |-> mat[rows[e[1]], cols[e[2]]]]

\* np.triu
triu(m) == [e \in DOMAIN m |-> IF e[1] <= e[2] THEN m[e] ELSE 0]

RECURSIVE SortByWeight(_, _)
\* np.argsort of the stored weights: ascending, equal weights in storage
\* (row-major) order.
SortByWeight(E, w) ==
    IF E = {} THEN <<>>
    ELSE LET m == CHOOSE e \in E : \A f \in E :
                     f = e \/ w[e] < w[f] \/ (w[e] = w[f] /\ PairLess(e, f))
         IN <<m>> \o SortByWeight(E \ {m}, w)

RECURSIVE Kruskal(_, _, _, _)
\* Kruskal's pass over the sorted edges; comp maps a node to its component.
Kruskal(es, x, comp, tree) ==
    IF x > Len(es) THEN tree
    ELSE LET e == es[x]
         IN IF comp[e[1]] = comp[e[2]]
            THEN Kruskal(es, x + 1, comp, tree)
            ELSE Kruskal(es, x + 1,
                         [v \in DOMAIN comp |->
                            IF comp[v] = comp[e[2]] THEN comp[e[1]] ELSE comp[v]],
                         tree \cup {e})

\* scipy.sparse.csgraph.minimum_spanning_tree(submat) on a dense (m,m)
\* array: the entries that are 0 are no edges of the graph; the result keeps
\* the entries of a minimum spanning forest of the others.
minimum_spanning_tree(submat, m) ==
    LET E == {e \in (1..m) \X (1..m) : submat[e] # 0}
    IN Kruskal(SortByWeight(E, submat), 1, [v \in 1..m |-> v], {})

\* The edges of one batch: np.where(mst_mat > 0.) mapped to clust_ids.
MstBatchEdges(mat, clust_ids) ==
    LET m == Len(clust_ids)
        submat == triu(submatrix_nb(mat, clust_ids, clust_ids))
        tree == minimum_spanning_tree(submat, m)
        pos == SortedPairs({e \in tree : submat[e] > 0})
    IN [x \in 1..Len(pos) |-> <<clust_ids[pos[x][1]], clust_ids[pos[x][2]]>>]

\* Whether some batch has more than one cluster.
SomeBatchAbove1(b_ids) ==
    \E b \in Range(b_ids) : Len(where(b_ids, b)) > 1

MstEdges(b_ids, mat) ==
    LET u == unique(b_ids)
    IN Flatten([x \in 1..Len(u) |->
                  IF Len(where(b_ids, u[x])) > 1
                  THEN MstBatchEdges(mat, where(b_ids, u[x]))
                  ELSE <<>>])

mst_graph(b_ids, dm, max_dist) ==
    IF SomeBatchAbove1(b_ids) /\ ~dm.given THEN Error("TypeError")
    ELSE LET cand == IF dm.given THEN MstEdges(b_ids, dm.mat) ELSE <<>>
         IN IF max_dist > -1
            THEN IF ~dm.given THEN Error("AssertionError")
                 ELSE LET kept == Prune(cand, dm, max_dist)
                      IN Ok(Reciprocal(kept), cand, kept)
            ELSE Ok(Reciprocal(cand), cand, cand)

-----------------------------------------------------------------------------
(* knn_graph *)

RECURSIVE ArgSortOf(_, _)
ArgSortOf(I, row) ==
    IF I = {} THEN <<>>
    ELSE LET m == CHOOSE a \in I : \A b \in I :
                     b = a \/ row[a] < row[b] \/ (row[a] = row[b] /\ a < b)
         IN <<m>> \o ArgSortOf(I \ {m}, row)

\* np.argsort(row): the sort of an array this short is an insertion sort,
\* which leaves equal entries in index order.
argsort(row) == ArgSortOf(DOMAIN row, row)

\* The edges emitted for local cluster i of a batch.
KnnRowEdges(submat, clust_ids, i, subk) ==
    LET m == Len(clust_ids)
        order == argsort([j \in 1..m |-> submat[i, j]])
        idxs == SortedSeq({order[x] : x \in 2..subk})   \* np.sort(order[1:subk])
    IN [j \in 1..Len(idxs) |-> <<clust_ids[i], clust_ids[idxs[j]]>>]

KnnBatchEdges(mat, clust_ids, k) ==
    LET m == Len(clust_ids)
        subk == IF k + 1 < m THEN k + 1 ELSE m
        submat == submatrix_nb(mat, clust_ids, clust_ids)
    IN Flatten([i \in 1..m |-> KnnRowEdges(submat, clust_ids, i, subk)])

KnnEdges(b_ids, mat, k) ==
    LET u == unique(b_ids)
    IN Flatten([x \in 1..Len(u) |->
                  IF Len(where(b_ids, u[x])) > 1
                  THEN KnnBatchEdges(mat, where(b_ids, u[x]), k)
                  ELSE <<>>])

knn_graph(b_ids, k, dm) ==
    IF SomeBatchAbove1(b_ids) /\ ~dm.given THEN Error("TypeError")
    ELSE LET cand == IF dm.given THEN KnnEdges(b_ids, dm.mat, k) ELSE <<>>
         IN Ok(Reciprocal(cand), cand, cand)

-----------------------------------------------------------------------------
(* bipartite_graph *)

\* The double loop without the test on the batch ids.
BipartitePairsAnyBatch(b_ids, primaries) ==
    SortedPairs({e \in (DOMAIN b_ids) \X (DOMAIN b_ids) :
                    primaries[e[1]] /\ ~primaries[e[2]]})

\* for i in np.where(primaries)[0]: for j in np.where(~primaries)[0]:
\*     if batch_ids[i] == batch_ids[j]: append [i,j]
BipartitePairs(b_ids, primaries) ==
    SortedPairs({e \in (DOMAIN b_ids) \X (DOMAIN b_ids) :
                    /\ primaries[e[1]] /\ ~primaries[e[2]]
                    /\ b_ids[e[1]] = b_ids[e[2]]})

\* The orientation step taking every unknown orientation for 'secondary'.
OrientDefaulting(ret, directed, directed_to) ==
    IF directed
    THEN [error |-> FALSE, ret |-> IF directed_to = "primary" THEN Reversed(ret) ELSE ret]
    ELSE [error |-> FALSE, ret |-> Reciprocal(ret)]

\* The orientation step that never swaps the columns.
OrientNoSwap(ret, directed, directed_to) ==
    IF directed
    THEN [error |-> directed_to \notin {"primary", "secondary"}, ret |-> ret]
    ELSE [error |-> FALSE, ret |-> Reciprocal(ret)]

\* Handle directedness, by default graph is directed towards secondaries.
Orient(ret, directed, directed_to) ==
    IF directed
    THEN IF directed_to = "primary" THEN [error |-> FALSE, ret |-> Reversed(ret)]
         ELSE IF directed_to # "secondary" THEN [error |-> TRUE, ret |-> <<>>]
         ELSE [error |-> FALSE, ret |-> ret]
    ELSE [error |-> FALSE, ret |-> Reciprocal(ret)]

bipartite_graph(b_ids, primaries, dm, max_dist, directed, directed_to) ==
    LET cand == BipartitePairs(b_ids, primaries)
    IN IF max_dist > -1 /\ ~dm.given THEN Error("AssertionError")
       ELSE LET kept == IF max_dist > -1 THEN Prune(cand, dm, max_dist) ELSE cand
                o == Orient(kept, directed, directed_to)
            IN IF o.error THEN Error("ValueError") ELSE Ok(o.ret, cand, kept)

-----------------------------------------------------------------------------
(* Inputs *)

Clusters(n) == 0..(n - 1)

BatchArrays == UNION {[Clusters(n) -> 0..MaxBatch] : n \in 0..MaxClusters}

UpperPairs(b_ids) ==
    {e \in (DOMAIN b_ids) \X (DOMAIN b_ids) : e[1] < e[2] /\ b_ids[e[1]] = b_ids[e[2]]}

\* A symmetric matrix, 0 on the diagonal and across batches.
Matrix(b_ids, up) ==
    [e \in (DOMAIN b_ids) \X (DOMAIN b_ids) |->
        IF e \in DOMAIN up THEN up[e]
        ELSE IF <<e[2], e[1]>> \in DOMAIN up THEN up[<<e[2], e[1]>>]
        ELSE 0]

\* The dist_mat argument: the matrix, or None when it is not given.
DistArg(given) == [given |-> given, mat |-> dist_mat]

MaxDists == {NoMaxDist} \cup 0..MaxDist

NoTri == [error |-> FALSE, adj |-> {}]

\* The arguments of a call; the ones the function does not take keep these.
NoCall ==
    [fn |-> "none", n |-> 0, given |-> FALSE, max_dist |-> NoMaxDist, k |-> 0,
     primaries |-> <<>>, directed |-> TRUE, directed_to |-> "secondary",
     tri |-> NoTri]

Init ==
    /\ batch_ids \in BatchArrays
    /\ \E up \in [UpperPairs(batch_ids) -> 0..MaxDist] :
          dist_mat = Matrix(batch_ids, up)
    /\ pc = "ready"
    /\ call = NoCall
    /\ result = Ok(<<>>, <<>>, <<>>)

CallLoopGraph ==
    /\ pc = "ready"
    /\ \E n \in 0..MaxClusters :
          /\ call' = [NoCall EXCEPT !.fn = "loop_graph", !.n = n]
          /\ result' = loop_graph(n)
    /\ pc' = "done"
    /\ UNCHANGED <<batch_ids, dist_mat>>

CallCompleteGraph ==
    /\ pc = "ready"
    /\ \E given \in BOOLEAN, max_dist \in MaxDists :
          /\ call' = [NoCall EXCEPT !.fn = "complete_graph", !.given = given,
                                    !.max_dist = max_dist]
          /\ result' = complete_graph(batch_ids, DistArg(given), max_dist)
    /\ pc' = "done"
    /\ UNCHANGED <<batch_ids, dist_mat>>

CallDelaunayGraph ==
    /\ pc = "ready"
    /\ \E given \in BOOLEAN, max_dist \in MaxDists, tri \in DelaunayOutcomes(batch_ids) :
          /\ call' = [NoCall EXCEPT !.fn = "delaunay_graph", !.given = given,
                                    !.max_dist = max_dist, !.tri = tri]
          /\ result' = delaunay_graph(batch_ids, tri, DistArg(given), max_dist)
    /\ pc' = "done"
    /\ UNCHANGED <<batch_ids, dist_mat>>

CallMstGraph ==
    /\ pc = "ready"
    /\ \E given \in BOOLEAN, max_dist \in MaxDists :
          /\ call' = [NoCall EXCEPT !.fn = "mst_graph", !.given = given,
                                    !.max_dist = max_dist]
          /\ result' = mst_graph(batch_ids, DistArg(given), max_dist)
    /\ pc' = "done"
    /\ UNCHANGED <<batch_ids, dist_mat>>

CallKnnGraph ==
    /\ pc = "ready"
    /\ \E given \in BOOLEAN, k \in 0..MaxK :
          /\ call' = [NoCall EXCEPT !.fn = "knn_graph", !.given = given, !.k = k]
          /\ result' = knn_graph(batch_ids, k, DistArg(given))
    /\ pc' = "done"
    /\ UNCHANGED <<batch_ids, dist_mat>>

CallBipartiteGraph ==
    /\ pc = "ready"
    /\ \E given \in BOOLEAN, max_dist \in MaxDists, directed \in BOOLEAN,
          directed_to \in Orientations, primaries \in [DOMAIN batch_ids -> BOOLEAN] :
          /\ call' = [NoCall EXCEPT !.fn = "bipartite_graph", !.given = given,
                                    !.max_dist = max_dist, !.directed = directed,
                                    !.directed_to = directed_to,
                                    !.primaries = primaries]
          /\ result' = bipartite_graph(batch_ids, primaries, DistArg(given),
                                       max_dist, directed, directed_to)
    /\ pc' = "done"
    /\ UNCHANGED <<batch_ids, dist_mat>>

Next ==
    \/ CallLoopGraph
    \/ CallCompleteGraph
    \/ CallDelaunayGraph
    \/ CallMstGraph
    \/ CallKnnGraph
    \/ CallBipartiteGraph

Spec == Init /\ [][Next]_vars

-----------------------------------------------------------------------------
(* Properties *)

Done == pc = "done"

Returned == pc = "done" /\ result.status = "ok"

Edges(ret) == Range(ret)

Pruning == {"complete_graph", "delaunay_graph", "mst_graph", "bipartite_graph"}

Undirected ==
    \/ call.fn \in {"complete_graph", "delaunay_graph", "mst_graph", "knn_graph"}
    \/ call.fn = "bipartite_graph" /\ ~call.directed

BatchOf(b) == {i \in DOMAIN batch_ids : batch_ids[i] = b}

\* C1: whatever the strategy, the batch ids and the pruning, every edge
\* (i,j) of a returned incidence matrix has batch_ids[i] = batch_ids[j]
\* (an edge of loop_graph, which takes no batch ids, has i = j).
C1_NoCrossBatchEdge ==
    Returned =>
        \A e \in Edges(result.ret) :
            IF call.fn = "loop_graph" THEN e[1] = e[2]
            ELSE /\ e[1] \in DOMAIN batch_ids
                 /\ e[2] \in DOMAIN batch_ids
                 /\ batch_ids[e[1]] = batch_ids[e[2]]

\* A pruned bipartite call that returned edges although a primary and a
\* secondary of different batches were there to be connected.
C1_Witness ==
    /\ Returned
    /\ call.fn = "bipartite_graph"
    /\ call.max_dist > -1
    /\ Len(result.ret) > 0
    /\ \E p, s \in DOMAIN batch_ids :
          call.primaries[p] /\ ~call.primaries[s] /\ batch_ids[p] # batch_ids[s]

\* C2: an incidence matrix returned by complete, delaunay, mst or knn, or by
\* bipartite with directed=False, holds (j,i) for each of its edges (i,j),
\* i # j, also after pruning.
C2_ReciprocalPresent ==
    Returned /\ Undirected =>
        \A e \in Edges(result.ret) :
            e[1] # e[2] => <<e[2], e[1]>> \in Edges(result.ret)

\* An undirected call whose pruning removed a candidate and kept another.
C2_Witness ==
    /\ Returned
    /\ Undirected
    /\ call.max_dist > -1
    /\ Len(result.kept) > 0
    /\ Len(result.kept) < Len(result.cand)
    /\ Len(result.ret) = 2 * Len(result.kept)

OrderedPairs ==
    {e \in (DOMAIN batch_ids) \X (DOMAIN batch_ids) :
        e[1] # e[2] /\ batch_ids[e[1]] = batch_ids[e[2]]}

Count(ret, e) == Cardinality({x \in DOMAIN ret : ret[x] = e})

\* C3: complete_graph without a threshold returns every ordered pair of
\* distinct clusters of one batch exactly once and nothing else, m(m-1)
\* edges for a batch of m clusters; the buffer of edge_count rows is filled
\* exactly.
C3_CompleteGraphExact ==
    Done /\ call.fn = "complete_graph" /\ call.max_dist = NoMaxDist =>
        /\ result.status = "ok"
        /\ \A e \in OrderedPairs : Count(result.ret, e) = 1
        /\ Edges(result.ret) \subseteq OrderedPairs
        /\ \A b \in Range(batch_ids) :
              Cardinality({x \in DOMAIN result.ret : result.ret[x][1] \in BatchOf(b)})
                = Cardinality(BatchOf(b)) * (Cardinality(BatchOf(b)) - 1)
        /\ <<Unwritten, Unwritten>> \notin Edges(result.cand)
        /\ 2 * Len(result.cand) = Cardinality(OrderedPairs)

\* complete_graph without a threshold on two batches, one of them with
\* edges and one of them with a single cluster.
C3_Witness ==
    /\ Done
    /\ call.fn = "complete_graph"
    /\ call.max_dist = NoMaxDist
    /\ Len(result.ret) > 0
    /\ \E b \in Range(batch_ids) : Cardinality(BatchOf(b)) = 1

\* C4: with a threshold, a candidate edge (i,j) is removed exactly when
\* dist_mat[i][j] exceeds the threshold.
C4_RemovedIffExceeds ==
    Returned /\ call.fn \in Pruning /\ call.max_dist > -1 =>
        \A e \in Edges(result.cand) :
            e \notin Edges(result.kept) <=> dist_mat[e[1], e[2]] > call.max_dist

\* C5: loop_graph(n) returns the n edges (k,k), k = 0..n-1, in this order.
C5_LoopGraphSelfEdges ==
    Done /\ call.fn = "loop_graph" =>
        /\ result.status = "ok"
        /\ result.ret = [x \in 1..call.n |-> <<x - 1, x - 1>>]

\* C6: a call of complete, delaunay, mst or bipartite with max_dist > -1 and
\* no distance matrix ends in an error.
C6_PruningNeedsDistMat ==
    Done /\ call.fn \in Pruning /\ call.max_dist > -1 /\ ~call.given =>
        result.status = "error"

\* C7 as stated: a call of bipartite_graph with an orientation that is
\* neither 'primary' nor 'secondary' ends in an error.
C7_UnknownOrientationFails ==
    /\ Done
    /\ call.fn = "bipartite_graph"
    /\ call.directed_to \notin {"primary", "secondary"}
    => result.status = "error"

\* C7 amended: a call of bipartite_graph with directed=True and an
\* orientation that is neither 'primary' nor 'secondary' ends in an error.
C7_UnknownOrientationFailsWhenDirected ==
    /\ Done
    /\ call.fn = "bipartite_graph"
    /\ call.directed
    /\ call.directed_to \notin {"primary", "secondary"}
    => result.status = "error"

\* A directed call with an unknown orientation that got past the pruning
\* of a non-empty candidate list and ended in the ValueError.
C7_Witness ==
    /\ Done
    /\ call.fn = "bipartite_graph"
    /\ call.directed
    /\ call.directed_to = "other"
    /\ call.given
    /\ \E p, s \in DOMAIN batch_ids :
          call.primaries[p] /\ ~call.primaries[s] /\ batch_ids[p] = batch_ids[s]
    /\ result.error = "ValueError"

Min2(a, b) == IF a < b THEN a ELSE b

\* The targets of the edges emitted from cluster i before symmetrization.
Targets(i) == {e[2] : e \in {f \in Edges(result.cand) : f[1] = i}}

\* C8: knn_graph emits from every cluster i of a batch of m > 1 clusters,
\* before symmetrization, edges to exactly min(k, m-1) distinct clusters of
\* the batch, none of them i, none of them farther from i than a cluster
\* left out; a batch of at most one cluster has no edge.
C8_KnnNearestOthers ==
    Returned /\ call.fn = "knn_graph" =>
        \A i \in DOMAIN batch_ids :
            LET B == BatchOf(batch_ids[i])
                m == Cardinality(B)
            IN IF m > 1
               THEN /\ Cardinality({x \in DOMAIN result.cand : result.cand[x][1] = i})
                         = Min2(call.k, m - 1)
                    /\ Cardinality(Targets(i)) = Min2(call.k, m - 1)
                    /\ Targets(i) \subseteq B \ {i}
                    /\ \A s \in Targets(i) : \A o \in (B \ {i}) \ Targets(i) :
                          ~(dist_mat[i, o] < dist_mat[i, s])
               ELSE \A e \in Edges(result.cand) : e[1] # i /\ e[2] # i

RECURSIVE Reach(_, _)
\* The nodes joined to those of R by the edges of T.
Reach(R, T) ==
    LET more == R \cup {e[2] : e \in {f \in T : f[1] \in R}}
                  \cup {e[1] : e \in {f \in T : f[2] \in R}}
    IN IF more = R THEN R ELSE Reach(more, T)

\* T is a spanning tree over the clusters B.
SpanningTree(T, B) ==
    /\ T \subseteq B \X B
    /\ Cardinality(T) = Cardinality(B) - 1
    /\ \A r \in B : Reach({r}, T) = B

RECURSIVE Weight(_)
Weight(T) ==
    IF T = {} THEN 0
    ELSE LET e == CHOOSE f \in T : TRUE
         IN dist_mat[e[1], e[2]] + Weight(T \ {e})

\* C9: mst_graph without a threshold emits for every batch of m > 1
\* clusters, before symmetrization, the m-1 edges of a spanning tree of the
\* batch of minimal total distance.
C9_MstIsMinimalSpanningTree ==
    Returned /\ call.fn = "mst_graph" /\ call.max_dist = NoMaxDist =>
        \A b \in Range(batch_ids) :
            LET B == BatchOf(b)
                T == {e \in Edges(result.cand) : e[1] \in B}
            IN Cardinality(B) > 1 =>
                 /\ Cardinality({x \in DOMAIN result.cand : result.cand[x][1] \in B})
                      = Cardinality(B) - 1
                 /\ SpanningTree(T, B)
                 /\ \A U \in SUBSET {e \in B \X B : e[1] < e[2]} :
                       SpanningTree(U, B) => Weight(T) <= Weight(U)

PrimaryPairs ==
    {e \in (DOMAIN batch_ids) \X (DOMAIN batch_ids) :
        /\ call.primaries[e[1]] /\ ~call.primaries[e[2]]
        /\ batch_ids[e[1]] = batch_ids[e[2]]}

\* C10: bipartite_graph without pruning emits, before the orientation is
\* handled, one edge (p,s) for every primary p and non-primary s of one
\* batch and nothing else; directed to 'secondary' it returns these edges,
\* directed to 'primary' the same edges as (s,p).
C10_BipartiteExact ==
    Done /\ call.fn = "bipartite_graph" /\ call.max_dist = NoMaxDist
         /\ (call.directed => call.directed_to \in {"primary", "secondary"}) =>
        /\ result.status = "ok"
        /\ \A e \in PrimaryPairs : Count(result.cand, e) = 1
        /\ Edges(result.cand) \subseteq PrimaryPairs
        /\ call.directed /\ call.directed_to = "secondary" =>
              result.ret = result.cand
        /\ call.directed /\ call.directed_to = "primary" =>
              /\ Len(result.ret) = Len(result.cand)
              /\ \A x \in DOMAIN result.cand :
                    result.ret[x] = <<result.cand[x][2], result.cand[x][1]>>

\* An unpruned call directed to 'primary' that returned an edge and left
\* out a primary and a secondary of different batches.
C10_Witness ==
    /\ Done
    /\ call.fn = "bipartite_graph"
    /\ call.max_dist = NoMaxDist
    /\ call.directed
    /\ call.directed_to = "primary"
    /\ Len(result.ret) >= 1
    /\ \E p, s \in DOMAIN batch_ids :
          call.primaries[p] /\ ~call.primaries[s] /\ batch_ids[p] # batch_ids[s]

-----------------------------------------------------------------------------
(* Voxels and clusters *)

\* (N,3) voxel coordinates: the voxels lie on the x axis.
VoxelArrays ==
    UNION {[0..(n - 1) -> {<<x, 0, 0>> : x \in 0..MaxCoord}] : n \in 1..MaxVoxels}

\* (C) list of arrays of voxel ids: the clusters of a labelling of the
\* voxels, each voxel in one cluster, no cluster empty.
ClusterLists(voxels) ==
    {[c \in Range(lab) |-> SortedSeq({v \in DOMAIN voxels : lab[v] = c})] :
        lab \in {l \in [DOMAIN voxels -> DOMAIN voxels] :
                    \E C \in 1..Len0(voxels) : Range(l) = 0..(C - 1)}}

\* The root of a perfect square.
Sqrt(s) == CHOOSE r \in 0..s : r * r = s

\* np.linalg.norm
Norm(v) == Sqrt(v[1] * v[1] + v[2] * v[2] + v[3] * v[3])

Sub(v, w) == <<v[1] - w[1], v[2] - w[2], v[3] - w[3]>>

\* cdist_nb(x1, x2): the (len(x1), len(x2)) matrix of Euclidean distances.
cdist_nb(x1, x2) ==
    [e \in (1..Len(x1)) \X (1..Len(x2)) |-> Norm(Sub(x1[e[1]], x2[e[2]]))]

\* voxels[clusts[i]]: the coordinates of the voxels of a cluster.
Take(voxels, ids) == [x \in 1..Len(ids) |-> voxels[ids[x]]]

\* np.min
MinOf(mat) == Min(Range(mat))

-----------------------------------------------------------------------------
(* _inter_cluster_distance: the iterations i of the prange run in parallel, *)
(* each going through its j loop in order.  result.next[i] is the j that    *)
(* iteration i handles next; dist_mat is the matrix being filled.           *)

Zeros(n) == [e \in (0..(n - 1)) \X (0..(n - 1)) |-> 0]

InitDist ==
    /\ \E voxels \in VoxelArrays : \E clusts \in ClusterLists(voxels) :
          /\ call = [fn |-> "_inter_cluster_distance", voxels |-> voxels,
                     clusts |-> clusts]
          /\ batch_ids \in [DOMAIN clusts -> 0..MaxBatch]
          /\ dist_mat = Zeros(Len0(clusts))
          /\ result = [status |-> "running", next |-> [i \in DOMAIN clusts |-> 0]]
    /\ pc = "running"

\* The value iteration i stores in dist_mat[i,j].
DistEntry(i, j) ==
    IF i < j
    THEN MinOf(cdist_nb(Take(call.voxels, call.clusts[i]),
                        Take(call.voxels, call.clusts[j])))
    ELSE dist_mat[j, i]

\* One pass of the j loop of iteration i.
DistStep(i) ==
    /\ pc = "running"
    /\ result.next[i] < Len0(batch_ids)
    /\ LET j == result.next[i]
       IN /\ dist_mat' = IF batch_ids[i] = batch_ids[j] /\ i # j
                         THEN [dist_mat EXCEPT ![i, j] = DistEntry(i, j)]
                         ELSE dist_mat
          /\ result' = [result EXCEPT !.next[i] = j + 1]
    /\ UNCHANGED <<batch_ids, call, pc>>

\* return dist_mat, once every iteration is through.
DistReturn ==
    /\ pc = "running"
    /\ \A i \in DOMAIN batch_ids : result.next[i] = Len0(batch_ids)
    /\ result' = [result EXCEPT !.status = "ok"]
    /\ pc' = "done"
    /\ UNCHANGED <<batch_ids, call, dist_mat>>

NextDist ==
    \/ \E i \in DOMAIN batch_ids : DistStep(i)
    \/ DistReturn

SpecDist == InitDist /\ [][NextDist]_vars

\* The minimum distance between a voxel of cluster i and one of cluster j.
MinVoxelDistance(i, j) ==
    Min({Norm(Sub(call.voxels[a], call.voxels[b])) :
            a \in Range(call.clusts[i]), b \in Range(call.clusts[j])})

\* C11: under every interleaving of the iterations the returned matrix is
\* symmetric, D[i][j] the minimum voxel distance of clusters i # j of one
\* batch and 0 when i = j or the batches differ.
C11_DistanceMatrixAnySchedule ==
    pc = "done" =>
        \A i, j \in DOMAIN batch_ids :
            /\ dist_mat[i, j] = dist_mat[j, i]
            /\ dist_mat[i, j] =
                 IF i # j /\ batch_ids[i] = batch_ids[j]
                 THEN MinVoxelDistance(i, j) ELSE 0

-----------------------------------------------------------------------------
(* Edge features: _get_cluster_edge_features, _get_voxel_edge_features,    *)
(* _get_edge_distances.  An edge_index array is the sequence of its rows.  *)

\* np.argmax in the place of np.argmin.
argmax(mat, ncols) ==
    LET flat(e) == (e[1] - 1) * ncols + (e[2] - 1)
        best == CHOOSE e \in DOMAIN mat : \A f \in DOMAIN mat :
                    mat[e] > mat[f] \/ (mat[e] = mat[f] /\ flat(e) <= flat(f))
    IN flat(best)

\* np.argmin(mat): the index, in the flattened array, of the first of the
\* smallest entries.
argmin(mat, ncols) ==
    LET flat(e) == (e[1] - 1) * ncols + (e[2] - 1)
        best == CHOOSE e \in DOMAIN mat : \A f \in DOMAIN mat :
                    mat[e] < mat[f] \/ (mat[e] = mat[f] /\ flat(e) <= flat(f))
    IN flat(best)

\* if lend > 0: disp = disp / lend
Normalize(disp, lend) ==
    IF lend > 0 THEN [c \in 1..3 |-> disp[c] \div lend] ELSE disp

\* np.outer(disp, disp).flatten()
OuterFlat(disp) == [x \in 1..9 |-> disp[((x - 1) \div 3) + 1] * disp[((x - 1) % 3) + 1]]

\* np.concatenate((v1, v2, disp, np.array([lend]), B))
FeatureRow(v1, v2, disp, lend) ==
    v1 \o v2 \o Normalize(disp, lend) \o <<lend>> \o OuterFlat(Normalize(disp, lend))

\* The row of features of the edge from cluster c1 to cluster c2.
ClusterEdgeRow(data, clusts, c1, c2) ==
    LET x1 == Take(data, clusts[c1])
        x2 == Take(data, clusts[c2])
        d12 == cdist_nb(x1, x2)
        imin == argmin(d12, Len(x2))
        v1 == x1[(imin \div Len(x2)) + 1]
        v2 == x2[(imin % Len(x2)) + 1]
        disp == Sub(v1, v2)
    IN FeatureRow(v1, v2, disp, Norm(disp))

\* The row of features of the edge from voxel i to voxel j.
VoxelEdgeRow(data, i, j) ==
    LET disp == Sub(data[j], data[i])
    IN FeatureRow(data[i], data[j], disp, Norm(disp))

\* edge_index[k,c]; oob is what a read past the end of row k yields.
Cell(edge_index, k, c, oob) ==
    IF c <= Len(edge_index[k]) THEN edge_index[k][c] ELSE oob

\* The pairs (edge_index[k,0], edge_index[k,1]), k in range(len(edge_index)).
PairsRead(edge_index, oob) ==
    [k \in 1..Len(edge_index) |->
        <<Cell(edge_index, k, 1, oob), Cell(edge_index, k, 2, oob)>>]

Feats(feats, proc) == [status |-> "ok", feats |-> feats, proc |-> proc]

Crash == [status |-> "crash", feats |-> <<>>, proc |-> <<>>]

_get_cluster_edge_features(data, clusts, edge_index, oob) ==
    LET proc == PairsRead(edge_index, oob)
    IN IF \E k \in DOMAIN proc : proc[k][1] \notin DOMAIN clusts
                                  \/ proc[k][2] \notin DOMAIN clusts
       THEN Crash
       ELSE Feats([k \in DOMAIN proc |->
                      ClusterEdgeRow(data, clusts, proc[k][1], proc[k][2])], proc)

_get_voxel_edge_features(data, edge_index, oob) ==
    LET proc == PairsRead(edge_index, oob)
    IN IF \E k \in DOMAIN proc : proc[k][1] \notin DOMAIN data
                                  \/ proc[k][2] \notin DOMAIN data
       THEN Crash
       ELSE Feats([k \in DOMAIN proc |-> VoxelEdgeRow(data, proc[k][1], proc[k][2])],
                  proc)

\* One pass of the loop of _get_edge_distances: lend[k], resi[k], resj[k],
\* and whether cdist_nb and np.argmin were called.
EdgeDistance(voxels, clusts, i, j) ==
    IF i = j
    THEN [lend |-> 0, resi |-> clusts[i][1], resj |-> clusts[j][1], searched |-> FALSE]
    ELSE LET dm == cdist_nb(Take(voxels, clusts[i]), Take(voxels, clusts[j]))
             idx == argmin(dm, Len(clusts[j]))
             ii == idx \div Len(clusts[j])
             jj == idx % Len(clusts[j])
         IN [lend |-> dm[ii + 1, jj + 1], resi |-> clusts[i][ii + 1],
             resj |-> clusts[j][jj + 1], searched |-> TRUE]

_get_edge_distances(voxels, clusts, edge_index) ==
    Feats([k \in DOMAIN edge_index |->
              EdgeDistance(voxels, clusts, edge_index[k][1], edge_index[k][2])],
          edge_index)

\* The edge lists of at most MaxEdges edges over the given ids.
EdgeLists(ids) == UNION {[1..E -> ids \X ids] : E \in 0..MaxEdges}

\* The array handed over for a list of edges: the (E,2) array of the edges,
\* or the (2,E) incidence matrix the graph builders return.
EdgeIndex(edges, layout) ==
    IF layout = "2xE" THEN Transpose(edges, 2) ELSE edges

\* What a read past the end of a row may yield: an id, or a number that is
\* no id (n stands for all of them).
OobValues(edge_index, n) ==
    IF \E k \in DOMAIN edge_index : Len(edge_index[k]) < 2 THEN 0..n ELSE {0}

InitFeat ==
    /\ \E voxels \in VoxelArrays : \E clusts \in ClusterLists(voxels) :
          call = [fn |-> "none", data |-> voxels, clusts |-> clusts,
                  edges |-> <<>>, layout |-> "Ex2"]
    /\ batch_ids = <<>>
    /\ dist_mat = <<>>
    /\ result = Feats(<<>>, <<>>)
    /\ pc = "ready"

CallClusterEdgeFeatures ==
    /\ pc = "ready"
    /\ \E edges \in EdgeLists(DOMAIN call.clusts), layout \in {"2xE", "Ex2"} :
          \E oob \in OobValues(EdgeIndex(edges, layout), Len0(call.clusts)) :
             /\ call' = [call EXCEPT !.fn = "_get_cluster_edge_features",
                                     !.edges = edges, !.layout = layout]
             /\ result' = _get_cluster_edge_features(call.data, call.clusts,
                                                     EdgeIndex(edges, layout), oob)
    /\ pc' = "done"
    /\ UNCHANGED <<batch_ids, dist_mat>>

CallVoxelEdgeFeatures ==
    /\ pc = "ready"
    /\ \E edges \in EdgeLists(DOMAIN call.data), layout \in {"2xE", "Ex2"} :
          \E oob \in OobValues(EdgeIndex(edges, layout), Len0(call.data)) :
             /\ call' = [call EXCEPT !.fn = "_get_voxel_edge_features",
                                     !.edges = edges, !.layout = layout]
             /\ result' = _get_voxel_edge_features(call.data,
                                                   EdgeIndex(edges, layout), oob)
    /\ pc' = "done"
    /\ UNCHANGED <<batch_ids, dist_mat>>

CallEdgeDistances ==
    /\ pc = "ready"
    /\ \E edges \in EdgeLists(DOMAIN call.clusts) :
          /\ call' = [call EXCEPT !.fn = "_get_edge_distances", !.edges = edges]
          /\ result' = _get_edge_distances(call.data, call.clusts, edges)
    /\ pc' = "done"
    /\ UNCHANGED <<batch_ids, dist_mat>>

NextFeat ==
    \/ CallClusterEdgeFeatures
    \/ CallVoxelEdgeFeatures
    \/ CallEdgeDistances

SpecFeat == InitFeat /\ [][NextFeat]_vars

Extractors == {"_get_cluster_edge_features", "_get_voxel_edge_features"}

\* The row of features of an edge (s,t) of the list handed over.
RowOf(e) ==
    IF call.fn = "_get_cluster_edge_features"
    THEN ClusterEdgeRow(call.data, call.clusts, e[1], e[2])
    ELSE VoxelEdgeRow(call.data, e[1], e[2])

\* C12: handed the (2,E) incidence matrix of E edges, the extractors return
\* E rows, row k computed from the source and the target of the k-th edge.
C12_RowPerEdgeOf2xE ==
    pc = "done" /\ call.fn \in Extractors /\ call.layout = "2xE" =>
        /\ result.status = "ok"
        /\ Len(result.feats) = Len(call.edges)
        /\ \A k \in DOMAIN call.edges : result.feats[k] = RowOf(call.edges[k])

Disp(row) == SubSeq(row, 7, 9)

LenD(row) == row[10]

\* C13: every row of features has a distance >= 0 and a displacement that
\* is the zero vector exactly when the distance is 0; a self-loop has
\* distance 0 and displacement zero, and _get_edge_distances gives a
\* self-loop the distance 0 without a search.
C13_ZeroDisplacementIffZeroDistance ==
    pc = "done" /\ result.status = "ok" =>
        /\ call.fn \in Extractors =>
              \A k \in DOMAIN result.feats :
                 /\ LenD(result.feats[k]) >= 0
                 /\ Disp(result.feats[k]) = <<0, 0, 0>> <=> LenD(result.feats[k]) = 0
                 /\ result.proc[k][1] = result.proc[k][2] =>
                       /\ LenD(result.feats[k]) = 0
                       /\ Disp(result.feats[k]) = <<0, 0, 0>>
        /\ call.fn = "_get_edge_distances" =>
              \A k \in DOMAIN result.feats :
                 /\ result.feats[k].lend >= 0
                 /\ result.proc[k][1] = result.proc[k][2] =>
                       result.feats[k].lend = 0 /\ ~result.feats[k].searched

\* The cluster extractor on a self-loop of a cluster of two voxels that are
\* apart, followed by an edge of positive distance or another self-loop.
C13_Witness ==
    /\ pc = "done"
    /\ result.status = "ok"
    /\ call.fn = "_get_cluster_edge_features"
    /\ \E k \in DOMAIN result.proc :
          /\ result.proc[k][1] = result.proc[k][2]
          /\ \E a, b \in Range(call.clusts[result.proc[k][1]]) :
                call.data[a] # call.data[b]
          /\ LenD(result.feats[k]) = 0

-----------------------------------------------------------------------------
(* _get_fragment_edges *)

\* np.vstack with the new row put first.
vstackFront(true_edges, row) == <<row>> \o true_edges

\* np.vstack((true_edges, np.array([[n1[0], n2[0]]])))
vstack(true_edges, row) == Append(true_edges, row)

RECURSIVE FragmentLoop(_, _, _, _)
\* for e in graph, from the k-th edge on.
FragmentLoop(graph, k, clust_ids, true_edges) ==
    IF k > Len(graph) THEN true_edges
    ELSE LET n1 == where(clust_ids, graph[k][1])
             n2 == where(clust_ids, graph[k][2])
         IN FragmentLoop(graph, k + 1, clust_ids,
                         IF Len(n1) # 0 /\ Len(n2) # 0
                         THEN vstack(true_edges, <<n1[1], n2[1]>>)
                         ELSE true_edges)

_get_fragment_edges(graph, clust_ids) == FragmentLoop(graph, 1, clust_ids, <<>>)

\* (C) lists of fragment cluster ids.
FragmentIds == UNION {[0..(C - 1) -> 0..MaxFrags] : C \in 0..MaxFrags}

InitFrag ==
    /\ \E graph \in EdgeLists(0..MaxFrags), clust_ids \in FragmentIds :
          call = [fn |-> "none", graph |-> graph, clust_ids |-> clust_ids]
    /\ batch_ids = <<>>
    /\ dist_mat = <<>>
    /\ result = [status |-> "none", true_edges |-> <<>>]
    /\ pc = "ready"

CallFragmentEdges ==
    /\ pc = "ready"
    /\ call' = [call EXCEPT !.fn = "_get_fragment_edges"]
    /\ result' = [status |-> "ok",
                  true_edges |-> _get_fragment_edges(call.graph, call.clust_ids)]
    /\ pc' = "done"
    /\ UNCHANGED <<batch_ids, dist_mat>>

NextFrag == CallFragmentEdges

SpecFrag == InitFrag /\ [][NextFrag]_vars

\* The positions of the edges of graph with both ids in clust_ids.
KeptPositions ==
    {x \in DOMAIN call.graph : /\ call.graph[x][1] \in Range(call.clust_ids)
                               /\ call.graph[x][2] \in Range(call.clust_ids)}

\* The local index of an id: the first place of clust_ids that holds it.
LocalIndex(id) == Min({i \in DOMAIN call.clust_ids : call.clust_ids[i] = id})

\* C14: _get_fragment_edges returns the edges of graph with both ids in
\* clust_ids, each id replaced by its local index, in the order of graph;
\* the other edges are dropped without error and no edge is added.
C14_FragmentEdgesExact ==
    pc = "done" =>
        /\ result.status = "ok"
        /\ Len(result.true_edges) = Cardinality(KeptPositions)
        /\ \A x \in KeptPositions :
              result.true_edges[Cardinality({y \in KeptPositions : y <= x})]
                = <<LocalIndex(call.graph[x][1]), LocalIndex(call.graph[x][2])>>

\* A call that kept two edges which map to different local edges, one of
\* whose ids is not its own local index.
C14_Witness ==
    /\ pc = "done"
    /\ Len(result.true_edges) >= 2
    /\ result.true_edges[1] # result.true_edges[2]
    /\ \E x \in KeptPositions : LocalIndex(call.graph[x][1]) # call.graph[x][1]

=============================================================================
